---- MODULE Spec2Model ----
(***************************************************************************)
(* A state-machine model of the CHIP-8 interpreter of RUST/src/chip8.rs    *)
(* (struct Chip8: new, load, emulate_cycle) and of the host loop of        *)
(* RUST/src/main.rs that drives it.                                        *)
(*                                                                         *)
(* Encoding of the two big arrays (the values are exactly the arrays'):    *)
(*   memory : [u8; 4096] is kept as the function of the cells that differ  *)
(*            from the array Chip8::new() builds (font in 0..79, 0 above); *)
(*            MemAt reads a cell, MemSet writes one.                       *)
(*   gfx    : [u8; 2048] only ever holds 0 or 1 (it starts at 0 and is     *)
(*            changed by `= [0; ..]` and `^= 1` alone); it is kept as the  *)
(*            set of the indices holding 1; GfxAt reads a cell.            *)
(***************************************************************************)
EXTENDS Integers, Sequences, FiniteSets, TLC

VARIABLES
    rom_path,   \* main.rs:50   the bytes of the file named by args[1]
    chip8,      \* main.rs:71   the Chip8 instance owned by main
    hpc,        \* main.rs      position of main: "load", "cycle", "events", "render", "exited", "panicked"
    fatal,      \* the panic message that ended the process, or "none"
    prev,       \* history: the Chip8 the last emulate_cycle started from, and how it ended
    calls,      \* history: the addresses of the calls not yet returned from, oldest first
    cycles,     \* number of emulate_cycle calls made on this Chip8 instance
    timed,      \* history: the value the last FX15 stored and the steps completed since, while none was a blocked FX0A
    dumped,     \* history: V0..VF, I and X at the start of the last FX55 whose bytes are still in memory
    keyboard    \* input: the keycodes of the key events the user produces in this run

vars == <<rom_path, chip8, hpc, fatal, prev, calls, cycles, dumped, timed, keyboard>>

----------------------------------------------------------------------------
(* Program constants *)

MEMORY_SIZE == 4096
ROM_START == 512
GFX_SIZE == 2048
STACK_SIZE == 16
FONT_SIZE == 80
U16 == 65536

FONTSET ==
    << 240, 144, 144, 144, 240,   \* 0
        32,  96,  32,  32, 112,   \* 1
       240,  16, 240, 128, 240,   \* 2
       240,  16, 240,  16, 240,   \* 3
       144, 144, 240,  16,  16,   \* 4
       240, 128, 240,  16, 240,   \* 5
       240, 128, 240, 144, 240,   \* 6
       240,  16,  32,  64,  64,   \* 7
       240, 144, 240, 144, 240,   \* 8
       240, 144, 240,  16, 240,   \* 9
       240, 144, 240, 144, 144,   \* A
       224, 144, 224, 144, 224,   \* B
       240, 128, 128, 128, 240,   \* C
       224, 144, 144, 144, 224,   \* D
       240, 128, 240, 128, 240,   \* E
       240, 128, 240, 128, 128 >> \* F

----------------------------------------------------------------------------
(* Bit operations on unsigned values *)

RECURSIVE BitAnd(_, _)
BitAnd(a, b) ==
    IF a = 0 \/ b = 0 THEN 0
    ELSE (IF a % 2 = 1 /\ b % 2 = 1 THEN 1 ELSE 0) + 2 * BitAnd(a \div 2, b \div 2)

RECURSIVE BitOr(_, _)
BitOr(a, b) ==
    IF a = 0 THEN b
    ELSE IF b = 0 THEN a
    ELSE (IF a % 2 = 1 \/ b % 2 = 1 THEN 1 ELSE 0) + 2 * BitOr(a \div 2, b \div 2)

RECURSIVE BitXor(_, _)
BitXor(a, b) ==
    IF a = 0 THEN b
    ELSE IF b = 0 THEN a
    ELSE (IF a % 2 # b % 2 THEN 1 ELSE 0) + 2 * BitXor(a \div 2, b \div 2)

----------------------------------------------------------------------------
(* The memory and pixel arrays *)

\* memory as built by Chip8::new(): the font, then zeroes
FreshByte(a) == IF a < FONT_SIZE THEN FONTSET[a + 1] ELSE 0

MemAt(c, a) == IF a \in DOMAIN c.memory THEN c.memory[a] ELSE FreshByte(a)

\* self.memory[a] = b, for a in 0..4095
MemSet(mem, a, b) ==
    IF b = FreshByte(a)
    THEN [k \in DOMAIN mem \ {a} |-> mem[k]]
    ELSE [k \in DOMAIN mem \cup {a} |-> IF k = a THEN b ELSE mem[k]]

GfxAt(c, idx) == IF idx \in c.gfx THEN 1 ELSE 0

EmptyMem == [k \in {} |-> 0]

----------------------------------------------------------------------------
(* Chip8::new *)

new ==
    [ opcode      |-> 0,
      memory      |-> EmptyMem,
      v           |-> [r \in 0..15 |-> 0],
      i           |-> 0,
      pc          |-> 512,
      stack       |-> [k \in 0..(STACK_SIZE - 1) |-> 0],
      sp          |-> 0,
      delay_timer |-> 0,
      sound_timer |-> 0,
      gfx         |-> {},
      key         |-> [k \in 0..15 |-> 0],
      draw_flag   |-> FALSE ]

\* struct Chip8: the fields and their ranges
TypeOK ==
    /\ chip8.opcode \in 0..(U16 - 1)
    /\ DOMAIN chip8.memory \subseteq 0..(MEMORY_SIZE - 1)
    /\ \A a \in DOMAIN chip8.memory : chip8.memory[a] \in 0..255
    /\ chip8.v \in [0..15 -> 0..255]
    /\ chip8.i \in 0..(U16 - 1)
    /\ chip8.pc \in 0..(U16 - 1)
    /\ chip8.stack \in [0..(STACK_SIZE - 1) -> 0..(U16 - 1)]
    /\ chip8.sp \in 0..(U16 - 1)
    /\ chip8.delay_timer \in 0..255
    /\ chip8.sound_timer \in 0..255
    /\ chip8.gfx \subseteq 0..(GFX_SIZE - 1)
    /\ chip8.key \in [0..15 -> {0, 1}]
    /\ chip8.draw_flag \in BOOLEAN

----------------------------------------------------------------------------
(* Outcome of a call into the Chip8: the instance as the call left it and  *)
(* how the call ended: "ok" (ran to its end), "return" (the early return   *)
(* of FX0A), "error" (an Err result) or "panic" with its message.          *)

Ok(c) == [c |-> c, out |-> "ok", msg |-> "none"]
Return(c) == [c |-> c, out |-> "return", msg |-> "none"]
Panic(c, m) == [c |-> c, out |-> "panic", msg |-> m]
Err(c, m) == [c |-> c, out |-> "error", msg |-> m]

\* Rust's bounds check on an index expression
IndexPanic == "index out of bounds"
\* Rust's overflow check on u16 arithmetic (builds with overflow-checks on)
OverflowPanic == "arithmetic overflow"
UnknownOpcode == "Unknown opcode"
RomTooLarge == "ROM too large to fit in memory"

----------------------------------------------------------------------------
(* Chip8::load: the file at rom_path is [readable, bytes]; File::open or   *)
(* read_to_end fail (the `?` returns Err) when it is not readable.         *)

\* for (i, &byte) in buffer.iter().enumerate() { self.memory[i + 512] = byte }
\* Each cell of 512..511+len is written once, so the loop leaves byte i at
\* 512 + i and every other cell as it was. (The cells are not written one
\* MemSet at a time: a 3584-byte file would nest 3584 evaluations.)
CopyRom(mem, buffer) ==
    LET target == ROM_START..(ROM_START + Len(buffer) - 1)
        byte(a) == buffer[(a - ROM_START) + 1]
        cells == { a \in DOMAIN mem : a \notin target } \cup { a \in target : byte(a) # FreshByte(a) }
    IN  [a \in cells |-> IF a \in target THEN byte(a) ELSE mem[a]]

load(c, file) ==
    IF ~file.readable THEN Err(c, "io")
    ELSE IF Len(file.bytes) > MEMORY_SIZE - ROM_START THEN Panic(c, RomTooLarge)
    ELSE Ok([c EXCEPT !.memory = CopyRom(c.memory, file.bytes)])

----------------------------------------------------------------------------
(* Operand fields of the opcode *)

OpX(c) == (c.opcode \div 256) % 16      \* (opcode & 0x0F00) >> 8
OpY(c) == (c.opcode \div 16) % 16       \* (opcode & 0x00F0) >> 4
OpN(c) == c.opcode % 16                 \* opcode & 0x000F
OpNN(c) == c.opcode % 256               \* opcode & 0x00FF
OpNNN(c) == c.opcode % 4096             \* opcode & 0x0FFF
OpFamily(c) == c.opcode \div 4096       \* (opcode & 0xF000) >> 12

SetV(c, r, val) == [c EXCEPT !.v[r] = val]
Advance(c, k) == [c EXCEPT !.pc = c.pc + k]

----------------------------------------------------------------------------
(* emulate_cycle: fetch *)

Fetch(c) ==
    IF c.pc >= MEMORY_SIZE THEN Panic(c, IndexPanic)
    ELSE IF c.pc + 1 >= MEMORY_SIZE THEN Panic(c, IndexPanic)
    ELSE Ok([c EXCEPT !.opcode = MemAt(c, c.pc) * 256 + MemAt(c, c.pc + 1)])

----------------------------------------------------------------------------
(* emulate_cycle: the 0x0000 family, matched on opcode & 0x000F *)

OpCls(c) == Ok(Advance([c EXCEPT !.gfx = {}, !.draw_flag = TRUE], 2))

\* (mutant of OpRet) the popped address is taken as the new pc, without the += 2
OpRetNoAdvance(c, checked) ==
    IF c.sp = 0 THEN Panic(c, IndexPanic)
    ELSE Ok([c EXCEPT !.sp = c.sp - 1, !.pc = c.stack[c.sp - 1]])

\* self.sp -= 1 on a u16: with sp = 0 a build with overflow checks panics
\* there, a build without wraps to 65535 and panics on the index.
OpRet(c, checked) ==
    IF c.sp = 0 /\ checked THEN Panic(c, OverflowPanic)
    ELSE LET sp1 == (c.sp - 1) % U16
             c1 == [c EXCEPT !.sp = sp1]
         IN  IF sp1 >= STACK_SIZE THEN Panic(c1, IndexPanic)
             ELSE Ok([c1 EXCEPT !.pc = c.stack[sp1] + 2])

Family0(c, checked) ==
    CASE OpN(c) = 0  -> OpCls(c)
      [] OpN(c) = 14 -> OpRet(c, checked)
      [] OTHER       -> Panic(c, UnknownOpcode)

----------------------------------------------------------------------------
(* 1NNN, 2NNN *)

OpJump(c) == Ok([c EXCEPT !.pc = OpNNN(c)])

\* (mutant of OpCall) no bounds check: the slot index wraps in the array
OpCallWrap(c) ==
    Ok([c EXCEPT !.stack[c.sp % STACK_SIZE] = c.pc, !.sp = c.sp + 1, !.pc = OpNNN(c)])

OpCall(c) ==
    IF c.sp >= STACK_SIZE THEN Panic(c, IndexPanic)
    ELSE Ok([c EXCEPT !.stack[c.sp] = c.pc, !.sp = c.sp + 1, !.pc = OpNNN(c)])

----------------------------------------------------------------------------
(* 3XNN, 4XNN, 5XY0, 9XY0: the skips. 5XY_ and 9XY_ are matched on the     *)
(* leading nibble alone.                                                   *)

Skip(c, cond) == Ok(Advance(c, IF cond THEN 4 ELSE 2))

OpSkipEqNN(c) == Skip(c, c.v[OpX(c)] = OpNN(c))
OpSkipNeNN(c) == Skip(c, c.v[OpX(c)] # OpNN(c))
OpSkipEqXY(c) == Skip(c, c.v[OpX(c)] = c.v[OpY(c)])
OpSkipNeXY(c) == Skip(c, c.v[OpX(c)] # c.v[OpY(c)])

----------------------------------------------------------------------------
(* 6XNN, 7XNN *)

OpSetNN(c) == Ok(Advance(SetV(c, OpX(c), OpNN(c)), 2))
OpAddNN(c) == Ok(Advance(SetV(c, OpX(c), (c.v[OpX(c)] + OpNN(c)) % 256), 2))

----------------------------------------------------------------------------
(* The 0x8000 family, matched on opcode & 0x000F. The flag is stored in    *)
(* v[0xF] first and the result in v[x] after it, as in the source.         *)

OpMov(c) == Ok(Advance(SetV(c, OpX(c), c.v[OpY(c)]), 2))
OpOr(c) == Ok(Advance(SetV(c, OpX(c), BitOr(c.v[OpX(c)], c.v[OpY(c)])), 2))
OpAnd(c) == Ok(Advance(SetV(c, OpX(c), BitAnd(c.v[OpX(c)], c.v[OpY(c)])), 2))
OpXor(c) == Ok(Advance(SetV(c, OpX(c), BitXor(c.v[OpX(c)], c.v[OpY(c)])), 2))

\* overflowing_add / overflowing_sub on u8: <<result, overflow>>
overflowing_add(a, b) == <<(a + b) % 256, a + b > 255>>
overflowing_sub(a, b) == <<(a - b) % 256, a < b>>

OpAddXY(c) ==
    LET r == overflowing_add(c.v[OpX(c)], c.v[OpY(c)])
        c1 == SetV(c, 15, IF r[2] THEN 1 ELSE 0)
    IN  Ok(Advance(SetV(c1, OpX(c), r[1]), 2))

OpSubXY(c) ==
    LET r == overflowing_sub(c.v[OpX(c)], c.v[OpY(c)])
        c1 == SetV(c, 15, IF r[2] THEN 0 ELSE 1)
    IN  Ok(Advance(SetV(c1, OpX(c), r[1]), 2))

OpShr(c) ==
    LET c1 == SetV(c, 15, c.v[OpX(c)] % 2)
    IN  Ok(Advance(SetV(c1, OpX(c), c1.v[OpX(c)] \div 2), 2))

OpSubN(c) ==
    LET r == overflowing_sub(c.v[OpY(c)], c.v[OpX(c)])
        c1 == SetV(c, 15, IF r[2] THEN 0 ELSE 1)
    IN  Ok(Advance(SetV(c1, OpX(c), r[1]), 2))

OpShl(c) ==
    LET c1 == SetV(c, 15, (c.v[OpX(c)] \div 128) % 2)
    IN  Ok(Advance(SetV(c1, OpX(c), (c1.v[OpX(c)] * 2) % 256), 2))

Family8(c) ==
    CASE OpN(c) = 0  -> OpMov(c)
      [] OpN(c) = 1  -> OpOr(c)
      [] OpN(c) = 2  -> OpAnd(c)
      [] OpN(c) = 3  -> OpXor(c)
      [] OpN(c) = 4  -> OpAddXY(c)
      [] OpN(c) = 5  -> OpSubXY(c)
      [] OpN(c) = 6  -> OpShr(c)
      [] OpN(c) = 7  -> OpSubN(c)
      [] OpN(c) = 14 -> OpShl(c)
      [] OTHER       -> Panic(c, UnknownOpcode)

----------------------------------------------------------------------------
(* ANNN, BNNN, CXNN *)

OpSetI(c) == Ok(Advance([c EXCEPT !.i = OpNNN(c)], 2))
OpJumpV0(c) == Ok([c EXCEPT !.pc = OpNNN(c) + c.v[0]])
OpRand(c, rng) == Ok(Advance(SetV(c, OpX(c), BitAnd(rng, OpNN(c))), 2))

----------------------------------------------------------------------------
(* DXYN: the two loops of the draw, row by row and bit by bit. A pixel is  *)
(* addressed by the linear index x + xline + (y + yline) * 64 and the only *)
(* test is idx < gfx.len().                                                *)

\* pixel & (0x80 >> xline) != 0
SpriteBit(pixel, xline) == (pixel \div (2 ^ (7 - xline))) % 2 = 1

PixelIndex(x, y, xline, yline) == x + xline + ((y + yline) * 64)

\* (mutant of DrawPixel) the pixel is set (|= 1), not toggled
DrawPixelOr(c, idx) ==
    IF idx < GFX_SIZE
    THEN LET c1 == IF GfxAt(c, idx) = 1 THEN SetV(c, 15, 1) ELSE c
         IN  [c1 EXCEPT !.gfx = c.gfx \cup {idx}]
    ELSE c

DrawPixel(c, idx) ==
    IF idx < GFX_SIZE
    THEN LET c1 == IF GfxAt(c, idx) = 1 THEN SetV(c, 15, 1) ELSE c
         IN  [c1 EXCEPT !.gfx = IF idx \in c.gfx THEN c.gfx \ {idx} ELSE c.gfx \cup {idx}]
    ELSE c

RECURSIVE DrawRow(_, _, _, _, _, _)
DrawRow(c, x, y, pixel, yline, xline) ==
    IF xline >= 8 THEN c
    ELSE DrawRow(IF SpriteBit(pixel, xline)
                 THEN DrawPixel(c, PixelIndex(x, y, xline, yline))
                 ELSE c,
                 x, y, pixel, yline, xline + 1)

RECURSIVE DrawRows(_, _, _, _, _)
DrawRows(c, x, y, height, yline) ==
    IF yline >= height THEN Ok(c)
    ELSE IF c.i + yline >= MEMORY_SIZE THEN Panic(c, IndexPanic)
    ELSE DrawRows(DrawRow(c, x, y, MemAt(c, c.i + yline), yline, 0),
                  x, y, height, yline + 1)

\* (mutant of OpDraw) v[0xF] is not zeroed before the loops
OpDrawKeepFlag(c) ==
    LET r == DrawRows(c, c.v[OpX(c)], c.v[OpY(c)], OpN(c), 0)
    IN  IF r.out = "ok"
        THEN Ok(Advance([r.c EXCEPT !.draw_flag = TRUE], 2))
        ELSE r

OpDraw(c) ==
    LET x == c.v[OpX(c)]
        y == c.v[OpY(c)]
        r == DrawRows(SetV(c, 15, 0), x, y, OpN(c), 0)
    IN  IF r.out = "ok"
        THEN Ok(Advance([r.c EXCEPT !.draw_flag = TRUE], 2))
        ELSE r

----------------------------------------------------------------------------
(* The 0xE000 family, matched on opcode & 0x00FF *)

\* (mutant of OpSkipKey) the key index is v[x] & 0xF
OpSkipKeyMasked(c) == Skip(c, c.key[c.v[OpX(c)] % 16] # 0)

OpSkipKey(c) ==
    IF c.v[OpX(c)] >= 16 THEN Panic(c, IndexPanic)
    ELSE Skip(c, c.key[c.v[OpX(c)]] # 0)

OpSkipNoKey(c) ==
    IF c.v[OpX(c)] >= 16 THEN Panic(c, IndexPanic)
    ELSE Skip(c, c.key[c.v[OpX(c)]] = 0)

FamilyE(c) ==
    CASE OpNN(c) = 158 -> OpSkipKey(c)
      [] OpNN(c) = 161 -> OpSkipNoKey(c)
      [] OTHER         -> Panic(c, UnknownOpcode)

----------------------------------------------------------------------------
(* The 0xF000 family, matched on opcode & 0x00FF *)

OpGetDelay(c) == Ok(Advance(SetV(c, OpX(c), c.delay_timer), 2))

\* (mutant of ScanKeys) a key found pressed is taken: its entry is cleared
RECURSIVE ScanKeysConsume(_, _, _, _)
ScanKeysConsume(c, x, k, key_pressed) ==
    IF k >= 16 THEN [c |-> c, key_pressed |-> key_pressed]
    ELSE IF c.key[k] # 0
         THEN ScanKeysConsume(SetV([c EXCEPT !.key[k] = 0], x, k), x, k + 1, TRUE)
         ELSE ScanKeysConsume(c, x, k + 1, key_pressed)

\* for i in 0..16 { if key[i] != 0 { v[x] = i; key_pressed = true } }
RECURSIVE ScanKeys(_, _, _, _)
ScanKeys(c, x, k, key_pressed) ==
    IF k >= 16 THEN [c |-> c, key_pressed |-> key_pressed]
    ELSE IF c.key[k] # 0
         THEN ScanKeys(SetV(c, x, k), x, k + 1, TRUE)
         ELSE ScanKeys(c, x, k + 1, key_pressed)

\* (mutant of OpWaitKey) the scan stops at the first pressed key
OpWaitKeyFirst(c) ==
    LET pressed == {k \in 0..15 : c.key[k] # 0}
    IN  IF pressed = {} THEN Return(c)
        ELSE Ok(Advance(SetV(c, OpX(c), CHOOSE k \in pressed : \A j \in pressed : k <= j), 2))

OpWaitKey(c) ==
    LET r == ScanKeys(c, OpX(c), 0, FALSE)
    IN  IF ~r.key_pressed THEN Return(r.c)
        ELSE Ok(Advance(r.c, 2))

OpSetDelay(c) == Ok(Advance([c EXCEPT !.delay_timer = c.v[OpX(c)]], 2))
OpSetSound(c) == Ok(Advance([c EXCEPT !.sound_timer = c.v[OpX(c)]], 2))

\* self.i + v[x] on u16: past 65535 a build with overflow checks panics, a
\* build without wraps. v[x] is read again, after v[0xF] was stored, for
\* the `+=`.
OpAddI(c, checked) ==
    IF c.i + c.v[OpX(c)] >= U16 /\ checked THEN Panic(c, OverflowPanic)
    ELSE LET c1 == SetV(c, 15, IF (c.i + c.v[OpX(c)]) % U16 > 4095 THEN 1 ELSE 0)
         IN  IF c1.i + c1.v[OpX(c)] >= U16 /\ checked THEN Panic(c1, OverflowPanic)
             ELSE Ok(Advance([c1 EXCEPT !.i = (c1.i + c1.v[OpX(c)]) % U16], 2))

OpFont(c) == Ok(Advance([c EXCEPT !.i = c.v[OpX(c)] * 5], 2))

\* (mutant of Store) the address is masked to 12 bits, no bounds check
StoreMasked(r, a, b) ==
    IF r.out # "ok" THEN r
    ELSE Ok([r.c EXCEPT !.memory = MemSet(r.c.memory, a % MEMORY_SIZE, b)])

\* self.memory[a] = b with Rust's bounds check (a is below 65538 here)
Store(r, a, b) ==
    IF r.out # "ok" THEN r
    ELSE IF a >= MEMORY_SIZE THEN Panic(r.c, IndexPanic)
    ELSE Ok([r.c EXCEPT !.memory = MemSet(r.c.memory, a, b)])

\* (mutant of OpBcd) the tens digit is v[x] / 10, without the % 10
OpBcdNoMod(c) ==
    LET vx == c.v[OpX(c)]
        r1 == Store(Ok(c), c.i, vx \div 100)
        r2 == Store(r1, c.i + 1, vx \div 10)
        r3 == Store(r2, c.i + 2, vx % 10)
    IN  IF r3.out = "ok" THEN Ok(Advance(r3.c, 2)) ELSE r3

\* self.i + 1 and self.i + 2 are u16 sums; they overflow only for
\* i >= 65534, where memory[i] has already panicked.
OpBcd(c) ==
    LET vx == c.v[OpX(c)]
        r1 == Store(Ok(c), c.i, vx \div 100)
        r2 == Store(r1, c.i + 1, (vx \div 10) % 10)
        r3 == Store(r2, c.i + 2, vx % 10)
    IN  IF r3.out = "ok" THEN Ok(Advance(r3.c, 2)) ELSE r3

RECURSIVE DumpRegs(_, _, _)
DumpRegs(r, x, k) ==
    IF k > x \/ r.out # "ok" THEN r
    ELSE DumpRegs(Store(r, r.c.i + k, r.c.v[k]), x, k + 1)

\* After the loop i + x <= 4095, so `self.i += x + 1` cannot overflow.
OpDump(c) ==
    LET r == DumpRegs(Ok(c), OpX(c), 0)
    IN  IF r.out = "ok"
        THEN Ok(Advance([r.c EXCEPT !.i = r.c.i + OpX(c) + 1], 2))
        ELSE r

RECURSIVE LoadRegs(_, _, _)
LoadRegs(r, x, k) ==
    IF k > x \/ r.out # "ok" THEN r
    ELSE IF r.c.i + k >= MEMORY_SIZE THEN Panic(r.c, IndexPanic)
    ELSE LoadRegs(Ok(SetV(r.c, k, MemAt(r.c, r.c.i + k))), x, k + 1)

\* (mutant of OpLoad) the loop is `for i in 0..x`: Vx itself is not loaded
OpLoadExclusive(c) ==
    LET r == LoadRegs(Ok(c), OpX(c) - 1, 0)
    IN  IF r.out = "ok"
        THEN Ok(Advance([r.c EXCEPT !.i = r.c.i + OpX(c) + 1], 2))
        ELSE r

OpLoad(c) ==
    LET r == LoadRegs(Ok(c), OpX(c), 0)
    IN  IF r.out = "ok"
        THEN Ok(Advance([r.c EXCEPT !.i = r.c.i + OpX(c) + 1], 2))
        ELSE r

FamilyF(c, checked) ==
    CASE OpNN(c) = 7   -> OpGetDelay(c)
      [] OpNN(c) = 10  -> OpWaitKey(c)
      [] OpNN(c) = 21  -> OpSetDelay(c)
      [] OpNN(c) = 24  -> OpSetSound(c)
      [] OpNN(c) = 30  -> OpAddI(c, checked)
      [] OpNN(c) = 41  -> OpFont(c)
      [] OpNN(c) = 51  -> OpBcd(c)
      [] OpNN(c) = 85  -> OpDump(c)
      [] OpNN(c) = 101 -> OpLoad(c)
      [] OTHER         -> Panic(c, UnknownOpcode)

----------------------------------------------------------------------------
(* emulate_cycle: decode on opcode & 0xF000, then the timers *)

Dispatch(c, checked, rng) ==
    CASE OpFamily(c) = 0  -> Family0(c, checked)
      [] OpFamily(c) = 1  -> OpJump(c)
      [] OpFamily(c) = 2  -> OpCall(c)
      [] OpFamily(c) = 3  -> OpSkipEqNN(c)
      [] OpFamily(c) = 4  -> OpSkipNeNN(c)
      [] OpFamily(c) = 5  -> OpSkipEqXY(c)
      [] OpFamily(c) = 6  -> OpSetNN(c)
      [] OpFamily(c) = 7  -> OpAddNN(c)
      [] OpFamily(c) = 8  -> Family8(c)
      [] OpFamily(c) = 9  -> OpSkipNeXY(c)
      [] OpFamily(c) = 10 -> OpSetI(c)
      [] OpFamily(c) = 11 -> OpJumpV0(c)
      [] OpFamily(c) = 12 -> OpRand(c, rng)
      [] OpFamily(c) = 13 -> OpDraw(c)
      [] OpFamily(c) = 14 -> FamilyE(c)
      [] OpFamily(c) = 15 -> FamilyF(c, checked)

Timers(c) ==
    [c EXCEPT !.delay_timer = IF c.delay_timer > 0 THEN c.delay_timer - 1 ELSE 0,
              !.sound_timer = IF c.sound_timer > 0 THEN c.sound_timer - 1 ELSE 0]

\* (mutant of emulate_cycle) the timers are counted down before the dispatch
emulate_cycleTickFirst(c, checked, rng) ==
    LET f == Fetch(c)
    IN  IF f.out # "ok" THEN f
        ELSE Dispatch(Timers(f.c), checked, rng)

emulate_cycle(c, checked, rng) ==
    LET f == Fetch(c)
    IN  IF f.out # "ok" THEN f
        ELSE LET d == Dispatch(f.c, checked, rng)
             IN  IF d.out = "ok" THEN Ok(Timers(d.c)) ELSE d

----------------------------------------------------------------------------
(* main.rs: key2btn, the keycodes the host maps to the hex keypad.         *)
(* None is modelled as -1.                                                 *)

key2btn(key) ==
    CASE key = "X"    -> 0
      [] key = "Num1" -> 1
      [] key = "Num2" -> 2
      [] key = "Num3" -> 3
      [] key = "Q"    -> 4
      [] key = "W"    -> 5
      [] key = "E"    -> 6
      [] key = "A"    -> 7
      [] key = "S"    -> 8
      [] key = "D"    -> 9
      [] key = "Z"    -> 10
      [] key = "C"    -> 11
      [] key = "Num4" -> 12
      [] key = "R"    -> 13
      [] key = "F"    -> 14
      [] key = "V"    -> 15
      [] OTHER        -> -1

----------------------------------------------------------------------------
(* Inputs of the model *)

\* keycodes of the key events the host receives (P is not mapped):
\* a user playing with two keys of the keypad, and one using a single key
TwoKeys == {"Num2", "V", "P"}
OneKey == {"V", "P"}

\* values rand::random() returns in the model
RandomBytes == {0, 165, 255}

\* the two build profiles: overflow checks on (debug) or off (release)
OverflowChecks == BOOLEAN

RECURSIVE Assemble(_)
Assemble(ops) ==
    IF ops = << >> THEN << >>
    ELSE <<Head(ops) \div 256, Head(ops) % 256>> \o Assemble(Tail(ops))

File(bytes) == [readable |-> TRUE, bytes |-> bytes]

NoPrev == [valid |-> FALSE]
NoDump == [valid |-> FALSE]
NoTimed == [valid |-> FALSE]

\* cycles explored past the words of the ROM
MaxExtraCycles == 2

\* the model follows a run for as many cycles as the ROM has words, and a few more
CycleBudget == (Len(rom_path.bytes) \div 2) + MaxExtraCycles

----------------------------------------------------------------------------
(* main *)

InitWith(files, keycodes) ==
    /\ rom_path \in files
    /\ keyboard = keycodes
    /\ chip8 = new
    /\ hpc = "load"
    /\ fatal = "none"
    /\ prev = NoPrev
    /\ calls = << >>
    /\ cycles = 0
    /\ dumped = NoDump
    /\ timed = NoTimed

\* main.rs:74-77: the first load; an Err ends the process with exit(2)
Load ==
    /\ hpc = "load"
    /\ LET r == load(chip8, rom_path)
       IN  /\ chip8' = r.c
           /\ hpc' = CASE r.out = "ok"    -> "cycle"
                       [] r.out = "error" -> "exited"
                       [] OTHER           -> "panicked"
           /\ fatal' = r.msg
    /\ UNCHANGED <<keyboard, rom_path, prev, calls, cycles, dumped, timed>>

\* main.rs:84: chip8.emulate_cycle(); a panic unwinds out of main
Cycle ==
    /\ hpc = "cycle"
    /\ cycles < CycleBudget
    /\ cycles' = cycles + 1
    /\ \E checked \in OverflowChecks, rng \in RandomBytes :
          LET r == emulate_cycle(chip8, checked, rng)
          IN  /\ chip8' = r.c
              /\ hpc' = IF r.out = "panic" THEN "panicked" ELSE "events"
              /\ fatal' = r.msg
              /\ prev' = [valid |-> TRUE, c |-> chip8, out |-> r.out, calls |-> calls]
              /\ calls' = CASE r.out = "ok" /\ r.c.sp = chip8.sp + 1 -> Append(calls, chip8.pc)
                            [] r.out = "ok" /\ r.c.sp = chip8.sp - 1 -> SubSeq(calls, 1, Len(calls) - 1)
                            [] OTHER -> calls
              /\ dumped' = CASE r.out = "ok" /\ r.c.opcode \div 4096 = 15 /\ r.c.opcode % 256 = \h55 ->
                                   [valid |-> TRUE, v |-> chip8.v, i |-> chip8.i, x |-> OpX(r.c)]
                              [] r.c.memory # chip8.memory -> NoDump
                              [] OTHER -> dumped
              /\ timed' = CASE r.out = "ok" /\ r.c.opcode \div 4096 = 15 /\ r.c.opcode % 256 = \h15 ->
                                  [valid |-> TRUE, n |-> chip8.v[OpX(r.c)], steps |-> 0]
                             [] r.out = "ok" /\ timed.valid -> [timed EXCEPT !.steps = timed.steps + 1]
                             [] r.out = "return" -> NoTimed
                             [] OTHER -> timed
    /\ UNCHANGED <<keyboard, rom_path>>

\* main.rs:89-92: Quit or Escape leaves the game loop
Quit ==
    /\ hpc = "events"
    /\ hpc' = "exited"
    /\ UNCHANGED <<keyboard, rom_path, chip8, fatal, prev, calls, cycles, dumped, timed>>

\* (mutant of Reset) F1 loads the ROM again into the Chip8 at hand
ResetInPlace ==
    /\ hpc = "events"
    /\ LET r == load(chip8, rom_path)
       IN  /\ chip8' = r.c
           /\ hpc' = CASE r.out = "ok"    -> "events"
                       [] r.out = "error" -> "exited"
                       [] OTHER           -> "panicked"
           /\ fatal' = r.msg
    /\ prev' = NoPrev
    /\ calls' = << >>
    /\ cycles' = 0
    /\ dumped' = NoDump
    /\ timed' = NoTimed
    /\ UNCHANGED <<keyboard, rom_path>>

\* main.rs:94-101: F1 builds a new Chip8 and loads the ROM again
Reset ==
    /\ hpc = "events"
    /\ LET r == load(new, rom_path)
       IN  /\ chip8' = r.c
           /\ hpc' = CASE r.out = "ok"    -> "events"
                       [] r.out = "error" -> "exited"
                       [] OTHER           -> "panicked"
           /\ fatal' = r.msg
    /\ prev' = NoPrev
    /\ calls' = << >>
    /\ cycles' = 0
    /\ dumped' = NoDump
    /\ timed' = NoTimed
    /\ UNCHANGED <<keyboard, rom_path>>

\* main.rs:102-106
KeyDown ==
    /\ hpc = "events"
    /\ \E key \in keyboard :
          chip8' = IF key2btn(key) # -1
                   THEN [chip8 EXCEPT !.key[key2btn(key)] = 1]
                   ELSE chip8
    /\ UNCHANGED <<keyboard, rom_path, hpc, fatal, prev, calls, cycles, dumped, timed>>

\* main.rs:107-111
KeyUp ==
    /\ hpc = "events"
    /\ \E key \in keyboard :
          chip8' = IF key2btn(key) # -1
                   THEN [chip8 EXCEPT !.key[key2btn(key)] = 0]
                   ELSE chip8
    /\ UNCHANGED <<keyboard, rom_path, hpc, fatal, prev, calls, cycles, dumped, timed>>

\* main.rs:87: poll_iter() has no more events
PollDone ==
    /\ hpc = "events"
    /\ hpc' = "render"
    /\ UNCHANGED <<keyboard, rom_path, chip8, fatal, prev, calls, cycles, dumped, timed>>

\* main.rs:117-149: the frame is presented when draw_flag is set
Render ==
    /\ hpc = "render"
    /\ chip8' = IF chip8.draw_flag THEN [chip8 EXCEPT !.draw_flag = FALSE] ELSE chip8
    /\ hpc' = "cycle"
    /\ UNCHANGED <<keyboard, rom_path, fatal, prev, calls, cycles, dumped, timed>>

Next ==
    \/ Load
    \/ Cycle
    \/ Quit
    \/ Reset
    \/ KeyDown
    \/ KeyUp
    \/ PollDone
    \/ Render

----------------------------------------------------------------------------
(* ROM files: control flow and decoding *)

\* longest call/return program enumerated
MaxCallOps == 3

\* opcodes outside the instruction table, and neighbours inside it
DecodeOps ==
    { \h0000, \h00F0, \h012E, \h0001, \h00E0, \h00EE,
      \h5011, \h501F, \h5010, \h9011, \h901F, \h9010,
      \h8008, \h800F, \h8014, \hE000, \hE09F, \hE09E, \hF000, \hF056, \hF007 }

\* what runs before the opcode under test: V0 = 1, a call, a glyph drawn
DecodeSetups == { <<\h6001>>, <<\h2202>>, <<\hD005>>, << >> }

DecodeRoms == { Assemble(pre \o <<op>>) : pre \in DecodeSetups, op \in DecodeOps }

CallOps == { \h2202, \h2204, \h2206, \h00EE, \h1200 }

CallRoms == UNION { { Assemble(ops) : ops \in [1..k -> CallOps] } : k \in 1..MaxCallOps }

\* n nested calls, each to the next word, then a return
CallChain(n) == Assemble([k \in 1..(n + 1) |-> IF k <= n THEN \h2200 + 2 * k ELSE \h00EE])

ChainRoms == { CallChain(STACK_SIZE), CallChain(STACK_SIZE + 1) }

ControlFiles == { File(b) : b \in DecodeRoms \cup CallRoms \cup ChainRoms }

SpecControl == InitWith(ControlFiles, OneKey) /\ [][Next]_vars

----------------------------------------------------------------------------
(* ROM files: the keypad and the timers *)

\* Vx = 0x2A, V1 = 7, then FX0A twice
KeyRoms == { Assemble(<<\h602A + 256 * x, \h6107, \hF00A + 256 * x, \hF00A + 256 * x>>) :
             x \in {0, 5, 15} }

\* instructions run while the timers count
TimerOps == { \hF10A, \hF207, \hF015, \hF018, \h6005, \h00E0 }

\* V0 = n, delay = V0, sound = V0, then two of TimerOps
TimerRoms == { Assemble(<<\h6000 + n, \hF015, \hF018, a, b>>) :
               n \in {0, 1, 3}, a \in TimerOps, b \in TimerOps }

InputFiles == { File(b) : b \in KeyRoms \cup TimerRoms }

SpecInput == InitWith(InputFiles, TwoKeys) /\ [][Next]_vars

----------------------------------------------------------------------------
(* ROM files: the keypad instructions *)

SkipKeyRegs == {0, 15}
\* Vx at the EX9E / EXA1: a key never pressed, the two keys of the user,
\* and values above 0xF whose low four bits are 0, 2 and F
SkipKeyBytes == {0, 2, 15, 16, 18, 255}

\* Vx = v, then EX9E or EXA1
SkipKeyRoms == { Assemble(<<\h6000 + 256 * x + v, \hE000 + 256 * x + nn>>) :
                 x \in SkipKeyRegs, v \in SkipKeyBytes, nn \in {\h9E, \hA1} }

\* with the ROMs of the FX0A and timer family
KeypadFiles == InputFiles \cup { File(b) : b \in SkipKeyRoms }

SpecKeypad == InitWith(KeypadFiles, TwoKeys) /\ [][Next]_vars

----------------------------------------------------------------------------
(* ROM files: register arithmetic *)

ArithRegs == {0, 3, 15}
ArithBytes == {0, 1, 128, 255}

\* Vx = a, Vy = b, then 8XY4 or 8XY5
ArithRoms == { Assemble(<<\h6000 + 256 * x + a, \h6000 + 256 * y + b, \h8000 + 256 * x + 16 * y + n>>) :
               x \in ArithRegs, y \in ArithRegs, a \in ArithBytes, b \in ArithBytes, n \in {4, 5} }

ArithFiles == { File(b) : b \in ArithRoms }

SpecArith == InitWith(ArithFiles, OneKey) /\ [][Next]_vars

----------------------------------------------------------------------------
(* ROM files: sprite drawing *)

\* <<X, Y>> of the DXYN under test
DrawRegs == { <<0, 1>>, <<15, 1>>, <<1, 15>> }
DrawXs == {0, 60, 250}
DrawYs == {0, 30, 250}
DrawHeights == {0, 1, 3}
\* first row of the sprite; row r is this byte plus r
SpritePatterns == {0, 255}
\* run between the two draws: nothing, or Vx += 1
DrawMids(x) == { << >>, <<\h7001 + 256 * x>> }
\* run before the registers are set: nothing, or (X and Y not F) VF = 1
DrawPres(x, y) == IF x # 15 /\ y # 15 THEN { << >>, <<\h6F01>> } ELSE { << >> }

\* pre; Vx = vx; Vy = vy; I = sprite; DXYN; mid; DXYN; DXYN; jump to self;
\* the sprite rows
DrawRom(x, y, vx, vy, n, pat, pre, mid) ==
    LET words == Len(pre) + Len(mid) + 7
        sprite == ROM_START + 2 * words
        self == ROM_START + 2 * (words - 1)
        draw == \hD000 + 256 * x + 16 * y + n
    IN  Assemble(pre \o <<\h6000 + 256 * x + vx, \h6000 + 256 * y + vy, \hA000 + sprite, draw>>
                 \o mid \o <<draw, draw, \h1000 + self>>)
        \o [r \in 1..n |-> (pat + (r - 1)) % 256]

DrawRomsOn(x, y) ==
    { DrawRom(x, y, vx, vy, n, pat, pre, mid) :
        vx \in DrawXs, vy \in DrawYs, n \in DrawHeights,
        pat \in SpritePatterns, pre \in DrawPres(x, y), mid \in DrawMids(x) }

DrawRoms == UNION { DrawRomsOn(xy[1], xy[2]) : xy \in DrawRegs }

\* a sprite read that runs past the end of memory
DrawEdgeRoms == { Assemble(<<\hAFFF, \hD002>>) }

DrawFiles == { File(b) : b \in DrawRoms \cup DrawEdgeRoms }

SpecDraw == InitWith(DrawFiles, OneKey) /\ [][Next]_vars

----------------------------------------------------------------------------
(* ROM files: the index register and the instructions that store through it *)

\* X of the FX55 / FX65 under test
DumpXs == {0, 2, 15}
\* I at the dump: mid-memory, the last place the range fits, one past it
DumpAddrs(x) == { \h300, MEMORY_SIZE - 1 - x, MEMORY_SIZE - x }
\* what the FX65 is preceded by: I set back to the dump's I, or I left as
\* the dump left it
DumpReloads(a) == { <<\hA000 + a>>, << >> }

\* V0..V2 and VF set; I = a; FX55; V0, V1, V2 and VF changed; the reload;
\* FX65
DumpRom(x, a, reload) ==
    Assemble(<<\h6011, \h6122, \h6233, \h6F44, \hA000 + a, \hF055 + 256 * x,
               \h60AA, \h7105, \h8210, \h6F00>>
             \o reload \o <<\hF065 + 256 * x>>)

DumpRomsAt(x, a) == { DumpRom(x, a, reload) : reload \in DumpReloads(a) }

DumpRoms == UNION { UNION { DumpRomsAt(x, a) : a \in DumpAddrs(x) } : x \in DumpXs }

BcdRegs == {0, 15}
BcdBytes == {0, 7, 10, 99, 100, 128, 199, 255}
\* I at the FX33: in the font, mid-memory, the last place three bytes fit,
\* one past it
BcdAddrs == { 0, \h300, MEMORY_SIZE - 3, MEMORY_SIZE - 2 }

\* Vx = v; I = a; FX33
BcdRoms == { Assemble(<<\h6000 + 256 * x + v, \hA000 + a, \hF033 + 256 * x>>) :
             x \in BcdRegs, v \in BcdBytes, a \in BcdAddrs }

AddIRegs == {0, 3, 15}
AddIBytes == {0, 1, 5, 255}
AddIAddrs == { \h300, \hF01, \hFFB, \hFFF }
\* run after the FX1E, through the I it left: FX33, FX55, FX65 (X = 1)
AddIUses == { \hF033, \hF155, \hF165 }

\* Vx = v; I = a; FX1E; an instruction that stores or loads through I
AddIRoms == { Assemble(<<\h6000 + 256 * x + v, \hA000 + a, \hF01E + 256 * x, use>>) :
              x \in AddIRegs, v \in AddIBytes, a \in AddIAddrs, use \in AddIUses }

MemFiles == { File(b) : b \in DumpRoms \cup BcdRoms \cup AddIRoms }

SpecMem == InitWith(MemFiles, OneKey) /\ [][Next]_vars

----------------------------------------------------------------------------
(* ROM files: the loader. Files around the size that fits above 0x200,     *)
(* short files, a file that cannot be read.                                *)

\* bytes of memory from 0x200 up
ROM_CAPACITY == MEMORY_SIZE - ROM_START

LoadSizes == { ROM_CAPACITY - 1, ROM_CAPACITY, ROM_CAPACITY + 1 }

\* n bytes: FF FF (an opcode that stops the run), zeroes, 07 at offset 999,
\* AB as the last byte
BigRom(n) ==
    [k \in 1..n |-> CASE k <= 2   -> 255
                      [] k = n    -> 171
                      [] k = 1000 -> 7
                      [] OTHER    -> 0]

\* V0 = 3, both timers set, a call, 0 0 3 stored over the font at 0, a glyph
\* drawn: every part of the Chip8 is changed
BusyRom == Assemble(<<\h6003, \hF015, \hF018, \h2208, \hA000, \hF033, \hD005>>)

\* an empty file, one byte, one instruction, BusyRom
SmallRoms == { << >>, <<96>>, Assemble(<<\h6005>>), BusyRom }

Unreadable == [readable |-> FALSE, bytes |-> << >>]

LoadFiles == { File(b) : b \in SmallRoms \cup { BigRom(n) : n \in LoadSizes } } \cup { Unreadable }

SpecLoad == InitWith(LoadFiles, OneKey) /\ [][Next]_vars

----------------------------------------------------------------------------
(* The whole model: every ROM file above, a user with two keys *)

Init == InitWith(ControlFiles \cup InputFiles \cup ArithFiles \cup DrawFiles \cup MemFiles \cup LoadFiles \cup KeypadFiles, TwoKeys)

Spec == Init /\ [][Next]_vars

----------------------------------------------------------------------------
(* What the claims are stated in: the last emulate_cycle call, from the    *)
(* Chip8 it started from (prev.c) to the Chip8 it left.                    *)

\* an emulate_cycle has run on this instance and its fetch was in bounds
Stepped == prev.valid /\ prev.c.pc + 1 < MEMORY_SIZE

\* the opcode that call fetched: the big-endian word at its pc
Fetched == MemAt(prev.c, prev.c.pc) * 256 + MemAt(prev.c, prev.c.pc + 1)
FetchedX == (Fetched \div 256) % 16
FetchedY == (Fetched \div 16) % 16
FetchedN == Fetched % 16
FetchedNN == Fetched % 256
FetchedNNN == Fetched % 4096
FetchedFamily == Fetched \div 4096

\* the call ran to its end (or took the early return of FX0A)
Completed == Stepped /\ prev.out # "panic"

\* the instruction table of the specification, section 4.3
InTable(op) ==
    LET fam == op \div 4096
        n == op % 16
        nn == op % 256
    IN  \/ op = \h00E0
        \/ op = \h00EE
        \/ fam \in {1, 2, 3, 4, 6, 7, 10, 11, 12, 13}
        \/ fam \in {5, 9} /\ n = 0
        \/ fam = 8 /\ n \in {0, 1, 2, 3, 4, 5, 6, 7, 14}
        \/ fam = 14 /\ nn \in {\h9E, \hA1}
        \/ fam = 15 /\ nn \in {\h07, \h0A, \h15, \h18, \h1E, \h29, \h33, \h55, \h65}

\* C1: a step that fetches an opcode outside the instruction table ends in
\* the fatal unknown-opcode condition and changes nothing but the opcode
\* field: no screen clear, no pop, no skip, no advance of pc.
C1_UnknownOpcodeIsFatal ==
    (Stepped /\ ~InTable(Fetched)) =>
        /\ hpc = "panicked"
        /\ fatal = UnknownOpcode
        /\ chip8 = [prev.c EXCEPT !.opcode = Fetched]

\* C2: a running machine has its stack pointer in 0..16; 2NNN with sp = 16
\* and 00EE with sp = 0 end the run, pc left where it was.
C2_StackPointerBounds ==
    /\ hpc # "panicked" => chip8.sp \in 0..STACK_SIZE
    /\ (Stepped /\ FetchedFamily = 2 /\ prev.c.sp = STACK_SIZE) =>
           hpc = "panicked" /\ chip8.pc = prev.c.pc /\ chip8.stack = prev.c.stack
    /\ (Stepped /\ Fetched = \h00EE /\ prev.c.sp = 0) =>
           hpc = "panicked" /\ chip8.pc = prev.c.pc

\* C2 witness: a 2NNN fetched with 16 return addresses saved has ended the run
C2_Witness ==
    /\ Stepped /\ FetchedFamily = 2 /\ prev.c.sp = STACK_SIZE
    /\ hpc = "panicked"

\* C3: 2NNN fetched at A saves A in the slot sp, adds 1 to sp and jumps to
\* NNN; 00EE takes sp back by 1 and resumes at A + 2, A being the address
\* of the call that had raised sp to that level (the last one still open).
C3_CallReturnLifo ==
    /\ hpc # "panicked" => Len(calls) = chip8.sp
    /\ (Completed /\ FetchedFamily = 2) =>
           /\ chip8.stack[prev.c.sp] = prev.c.pc
           /\ chip8.sp = prev.c.sp + 1
           /\ chip8.pc = FetchedNNN
           /\ calls = Append(prev.calls, prev.c.pc)
    /\ (Completed /\ Fetched = \h00EE) =>
           /\ chip8.sp = prev.c.sp - 1
           /\ chip8.pc = prev.calls[Len(prev.calls)] + 2
           /\ calls = SubSeq(prev.calls, 1, Len(prev.calls) - 1)

\* C3 witness: a 00EE at depth 16 has resumed after the sixteenth call,
\* the fifteen older calls still open
C3_Witness ==
    /\ Completed /\ Fetched = \h00EE /\ prev.c.sp = STACK_SIZE
    /\ chip8.pc = prev.calls[STACK_SIZE] + 2
    /\ Len(calls) = STACK_SIZE - 1

\* the keys pressed when the last emulate_cycle started
KeysDown == {k \in 0..15 : prev.c.key[k] # 0}

IsWaitKey == FetchedFamily = 15 /\ FetchedNN = \h0A

\* C4: a step that fetches FX0A with no key pressed leaves pc and all
\* registers unchanged, however often it is repeated; with a key pressed it
\* advances pc by 2 and stores the highest pressed key index in Vx.
C4_WaitKeyBlocks ==
    (Stepped /\ IsWaitKey) =>
        /\ Completed
        /\ chip8.i = prev.c.i
        /\ KeysDown = {} =>
               /\ chip8.pc = prev.c.pc
               /\ chip8.v = prev.c.v
        /\ KeysDown # {} =>
               /\ chip8.pc = prev.c.pc + 2
               /\ chip8.v = [prev.c.v EXCEPT ![FetchedX] =
                                CHOOSE k \in KeysDown : \A j \in KeysDown : j <= k]

\* C4 witness: the first FX0A of a key ROM, blocked in cycles 3 and 4, has
\* passed in cycle 5 with keys 2 and F held and, V5 = 0xF, pc advanced
C4_Witness ==
    /\ Completed /\ IsWaitKey /\ FetchedX = 5
    /\ cycles = 5 /\ prev.c.pc = \h204
    /\ KeysDown = {2, 15}
    /\ prev.c.v[5] = \h2A
    /\ chip8.v[5] = 15 /\ chip8.pc = \h206

\* the timer value left by dispatch: what FX15 / FX18 stored, else the old value
DelayAfterDispatch ==
    IF FetchedFamily = 15 /\ FetchedNN = \h15 THEN prev.c.v[FetchedX] ELSE prev.c.delay_timer
SoundAfterDispatch ==
    IF FetchedFamily = 15 /\ FetchedNN = \h18 THEN prev.c.v[FetchedX] ELSE prev.c.sound_timer

Ticked(t) == IF t > 0 THEN t - 1 ELSE 0

\* C5: after every step that does not end fatally, whatever it executed
\* (a blocked FX0A included), each timer is one less than dispatch left it,
\* and 0 stays 0.
C5_TimersTickEveryStep ==
    Completed =>
        /\ chip8.delay_timer = Ticked(DelayAfterDispatch)
        /\ chip8.sound_timer = Ticked(SoundAfterDispatch)

\* C6: after 8XY4 with Vx = a and Vy = b, VF = 1 if a + b > 255 and 0
\* otherwise, for every X and Y; for X other than F, Vx = (a + b) mod 256.
C6_AddCarryFlag ==
    (Completed /\ FetchedFamily = 8 /\ FetchedN = 4) =>
        LET a == prev.c.v[FetchedX]
            b == prev.c.v[FetchedY]
        IN  /\ chip8.v[15] = IF a + b > 255 THEN 1 ELSE 0
            /\ FetchedX # 15 => chip8.v[FetchedX] = (a + b) % 256

\* C7: after 8XY5 with Vx = a and Vy = b, VF = 0 if a < b and 1 if a >= b,
\* for every X and Y; for X other than F, Vx = (a - b) mod 256.
C7_SubBorrowFlag ==
    (Completed /\ FetchedFamily = 8 /\ FetchedN = 5) =>
        LET a == prev.c.v[FetchedX]
            b == prev.c.v[FetchedY]
        IN  /\ chip8.v[15] = IF a < b THEN 0 ELSE 1
            /\ FetchedX # 15 => chip8.v[FetchedX] = (a - b) % 256

IsDraw == FetchedFamily = 13

\* the pixels the last step cleared, set, changed
Cleared == prev.c.gfx \ chip8.gfx
Lit == chip8.gfx \ prev.c.gfx
Changed == Cleared \cup Lit

\* C8: after a DXYN step VF = 1 exactly when some pixel went from 1 to 0 in
\* that draw, and VF = 0 otherwise, whatever VF held before.
C8_CollisionFlag ==
    (Completed /\ IsDraw) => chip8.v[15] = IF Cleared # {} THEN 1 ELSE 0

\* C8 witness: a draw that lit pixels and cleared none has replaced a stale
\* VF = 1 by 0
C8_Witness ==
    /\ Completed /\ IsDraw
    /\ FetchedX # 15 /\ FetchedY # 15 /\ prev.c.v[15] = 1
    /\ Lit # {} /\ Cleared = {}
    /\ chip8.v[15] = 0

\* the instruction at the pc of the current Chip8 is a DXYN with the N, I,
\* sprite bytes and position of the draw the last step completed
SameDrawAgain ==
    LET op == MemAt(chip8, chip8.pc) * 256 + MemAt(chip8, chip8.pc + 1)
    IN  /\ chip8.pc + 1 < MEMORY_SIZE
        /\ op \div 4096 = 13
        /\ op % 16 = FetchedN
        /\ chip8.i = prev.c.i
        /\ \A r \in 0..(FetchedN - 1) : MemAt(chip8, chip8.i + r) = MemAt(prev.c, prev.c.i + r)
        /\ chip8.v[(op \div 256) % 16] = prev.c.v[FetchedX]
        /\ chip8.v[(op \div 16) % 16] = prev.c.v[FetchedY]

C9_SecondDraw ==
    (hpc = "cycle" /\ Completed /\ IsDraw /\ SameDrawAgain /\ hpc' # "cycle") =>
        /\ hpc' = "events"
        /\ chip8'.gfx = prev.c.gfx
        /\ prev.c.gfx = {} =>
               /\ chip8'.gfx = {}
               /\ chip8'.v[15] = IF chip8.gfx # {} THEN 1 ELSE 0

\* C9: two consecutive DXYN steps with the same N, I, sprite bytes and
\* position leave the pixel surface as it was before the first; from the
\* all-zero surface the second reports VF = 1 exactly when the first lit
\* a pixel.
C9_DrawTwiceRestores == [][C9_SecondDraw]_vars

\* C9 witness: after a first draw, Vx += 1 and a second draw that cleared
\* some of the first's pixels and lit others, the third draw (the same
\* DXYN as the second, adjacent to it) has undone the second: it cleared
\* pixels and lit pixels, and left as many pixels as the first draw lit
C9_Witness ==
    /\ Completed /\ IsDraw
    /\ prev.c.pc >= ROM_START + 4
    /\ MemAt(prev.c, prev.c.pc - 2) * 256 + MemAt(prev.c, prev.c.pc - 1) = Fetched
    /\ MemAt(prev.c, prev.c.pc - 4) * 256 + MemAt(prev.c, prev.c.pc - 3) = \h7001 + 256 * FetchedX
    /\ FetchedX # 15 /\ FetchedY # 15
    /\ Cleared # {} /\ Lit # {}
    /\ chip8.v[15] = 1
    /\ Cardinality(chip8.gfx) > 8

\* C10: a set sprite bit at row r, column col toggles the pixel at column
\* Vx + col, row Vy + r when Vx + col < 64 and Vy + r < 32 and no pixel
\* otherwise, so nothing outside columns Vx..Vx+7, rows Vy..Vy+N-1 changes.
C10_NoCoordinateWrap ==
    (Completed /\ IsDraw) =>
        LET vx == prev.c.v[FetchedX]
            vy == prev.c.v[FetchedY]
            bits == { rc \in (0..(FetchedN - 1)) \X (0..7) :
                        (MemAt(prev.c, prev.c.i + rc[1]) \div (2 ^ (7 - rc[2]))) % 2 = 1 }
        IN  Changed = { (vy + rc[1]) * 64 + vx + rc[2] :
                          rc \in { q \in bits : vx + q[2] < 64 /\ vy + q[1] < 32 } }

IsDump == FetchedFamily = 15 /\ FetchedNN = \h55
IsLoad == FetchedFamily = 15 /\ FetchedNN = \h65

\* the memory cells the last step changed
Written ==
    { a \in DOMAIN prev.c.memory \cup DOMAIN chip8.memory : MemAt(prev.c, a) # MemAt(chip8, a) }

\* C11: FX55 stores V0..Vx in memory[I..I+X] and nowhere else; FX65 with the
\* same X, run from the same I after V0..Vx were changed, leaves V0..Vx as
\* they were before the dump; both leave I = I + X + 1 and no register
\* above Vx changed.
C11_DumpLoadRoundTrip ==
    /\ (Completed /\ IsDump) =>
           /\ prev.c.i + FetchedX <= MEMORY_SIZE - 1
           /\ chip8.i = prev.c.i + FetchedX + 1
           /\ chip8.v = prev.c.v
           /\ Written \subseteq prev.c.i..(prev.c.i + FetchedX)
           /\ \A k \in 0..FetchedX : MemAt(chip8, prev.c.i + k) = prev.c.v[k]
    /\ (Completed /\ IsLoad) =>
           /\ chip8.i = prev.c.i + FetchedX + 1
           /\ \A k \in (FetchedX + 1)..15 : chip8.v[k] = prev.c.v[k]
           /\ Written = {}
    /\ (Completed /\ IsLoad /\ dumped.valid /\ dumped.x = FetchedX /\ dumped.i = prev.c.i) =>
           \A k \in 0..FetchedX : chip8.v[k] = dumped.v[k]

\* C11 witness: V0..VF dumped at the last place they fit, 4080..4095, then
\* V0, V1, V2 and VF changed, I set back, and FX65 has put back all sixteen
\* and left I = 4096
C11_Witness ==
    /\ Completed /\ IsLoad /\ FetchedX = 15
    /\ dumped.valid /\ dumped.x = 15 /\ dumped.i = MEMORY_SIZE - 16 /\ prev.c.i = dumped.i
    /\ prev.c.v[0] # dumped.v[0] /\ prev.c.v[2] # dumped.v[2] /\ prev.c.v[15] # dumped.v[15]
    /\ chip8.v = dumped.v
    /\ chip8.v[15] = \h44
    /\ chip8.i = MEMORY_SIZE

\* the load of this Chip8 instance has been made and no cycle run since
JustLoaded == hpc \notin {"load"} /\ ~prev.valid /\ cycles = 0 /\ rom_path.readable

\* C12: a file of up to 3584 bytes is loaded, byte k at 0x200 + k; a longer
\* one makes load return the RomTooLarge error to main, which handles it as
\* it does any load error (the process is left by exit, not by a panic),
\* the Chip8 being as it was before the call.
C12_RomSizeBoundary ==
    /\ (JustLoaded /\ Len(rom_path.bytes) <= ROM_CAPACITY) =>
           /\ hpc # "panicked" /\ fatal = "none"
           /\ \A k \in 0..(Len(rom_path.bytes) - 1) :
                  MemAt(chip8, ROM_START + k) = rom_path.bytes[k + 1]
    /\ (JustLoaded /\ Len(rom_path.bytes) > ROM_CAPACITY) =>
           /\ hpc = "exited"
           /\ fatal = RomTooLarge
           /\ chip8 = new

IsBcd == FetchedFamily = 15 /\ FetchedNN = \h33

\* the last address an FX33 or FX55 is to store at
StoreLast == prev.c.i + (IF IsBcd THEN 2 ELSE FetchedX)

\* C13: no memory cell at 4096 or above is ever written; an FX33 or FX55
\* whose range I..last reaches past 4095 ends in the fatal index panic, the
\* cells it changed all lying in I..4095; a step changes no cell outside
\* the range of its FX33 or FX55, and no cell at all if it is neither.
C13_NoWritePastMemory ==
    /\ DOMAIN chip8.memory \subseteq 0..(MEMORY_SIZE - 1)
    /\ (Stepped /\ (IsBcd \/ IsDump) /\ StoreLast >= MEMORY_SIZE) =>
           /\ hpc = "panicked" /\ fatal = IndexPanic
           /\ chip8.pc = prev.c.pc
           /\ Written \subseteq prev.c.i..(MEMORY_SIZE - 1)
    /\ (Stepped /\ (IsBcd \/ IsDump)) => Written \subseteq prev.c.i..StoreLast
    /\ (Stepped /\ ~(IsBcd \/ IsDump)) => Written = {}

\* C13 witness: F255 with I = 4094 has stored V0 and V1 at 4094 and 4095
\* and panicked on 4096; the byte at address 0 is still the font's
C13_Witness ==
    /\ Stepped /\ IsDump /\ FetchedX = 2 /\ prev.c.i = MEMORY_SIZE - 2
    /\ hpc = "panicked" /\ fatal = IndexPanic
    /\ Written = { MEMORY_SIZE - 2, MEMORY_SIZE - 1 }
    /\ prev.c.v[2] # FONTSET[1]
    /\ MemAt(chip8, 0) = FONTSET[1]

IsAddI == FetchedFamily = 15 /\ FetchedNN = \h1E

\* C14: after FX1E, for every X (F included), I is the old I plus the old
\* Vx, not reduced to 12 bits, and VF = 1 if that sum is above 0xFFF, 0
\* otherwise.
C14_AddToIndex ==
    (Completed /\ IsAddI) =>
        LET sum == prev.c.i + prev.c.v[FetchedX]
        IN  /\ chip8.i = sum
            /\ chip8.v[15] = IF sum > \hFFF THEN 1 ELSE 0

\* C15: FX33 with I <= 4093 completes and leaves the hundreds, tens and
\* units digits of Vx in memory[I], memory[I+1], memory[I+2]: each is in
\* 0..9 and 100 * memory[I] + 10 * memory[I+1] + memory[I+2] = Vx; I, the
\* registers and every other memory cell are unchanged.
C15_BcdDigits ==
    (Stepped /\ IsBcd /\ prev.c.i <= MEMORY_SIZE - 3) =>
        LET I == prev.c.i
            d == [k \in 0..2 |-> MemAt(chip8, I + k)]
        IN  /\ Completed
            /\ \A k \in 0..2 : d[k] \in 0..9
            /\ 100 * d[0] + 10 * d[1] + d[2] = prev.c.v[FetchedX]
            /\ chip8.i = I
            /\ chip8.v = prev.c.v
            /\ Written \subseteq I..(I + 2)

\* C15 witness: F033 with V0 = 199 and I = 4093 has stored 1, 9, 9 in the
\* last three bytes of memory
C15_Witness ==
    /\ Completed /\ IsBcd /\ FetchedX = 0
    /\ prev.c.v[0] = 199 /\ prev.c.i = MEMORY_SIZE - 3
    /\ MemAt(chip8, MEMORY_SIZE - 3) = 1
    /\ MemAt(chip8, MEMORY_SIZE - 2) = 9
    /\ MemAt(chip8, MEMORY_SIZE - 1) = 9
    /\ Written = (MEMORY_SIZE - 3)..(MEMORY_SIZE - 1)

\* the skip instructions of the table and the condition each skips on
IsSkip ==
    \/ FetchedFamily \in {3, 4}
    \/ FetchedFamily \in {5, 9} /\ FetchedN = 0
    \/ FetchedFamily = 14 /\ FetchedNN \in {\h9E, \hA1}

SkipCondition ==
    LET vx == prev.c.v[FetchedX]
        vy == prev.c.v[FetchedY]
    IN  CASE FetchedFamily = 3  -> vx = FetchedNN
          [] FetchedFamily = 4  -> vx # FetchedNN
          [] FetchedFamily = 5  -> vx = vy
          [] FetchedFamily = 9  -> vx # vy
          [] FetchedFamily = 14 /\ FetchedNN = \h9E -> prev.c.key[vx] # 0
          [] FetchedFamily = 14 /\ FetchedNN = \hA1 -> prev.c.key[vx] = 0

\* C16: a step that does not end fatally leaves pc at the jump target if it
\* fetched 1NNN, 2NNN (NNN), BNNN (NNN + V0) or 00EE (the popped address
\* + 2); at old + 4 or old + 2 if it fetched one of 3XNN, 4XNN, 5XY0, 9XY0,
\* EX9E, EXA1, as its skip condition holds or not; at old or old + 2 if it
\* fetched FX0A, as no key or some key is pressed; and at old + 2 in every
\* other case.
C16_ProgramCounterPolicy ==
    Completed =>
        LET old == prev.c.pc
        IN  chip8.pc =
                CASE FetchedFamily \in {1, 2} -> FetchedNNN
                  [] FetchedFamily = 11       -> FetchedNNN + prev.c.v[0]
                  [] Fetched = \h00EE         -> prev.c.stack[prev.c.sp - 1] + 2
                  [] IsSkip                   -> IF SkipCondition THEN old + 4 ELSE old + 2
                  [] IsWaitKey                -> IF KeysDown = {} THEN old ELSE old + 2
                  [] OTHER                    -> old + 2

\* what C17 says of one step of the program: an emulate_cycle does not
\* clear a set flag; whatever changes the pixel surface leaves the flag
\* set; the flag goes from set to cleared only where main presents the
\* frame (main.rs:117-145)
C17_FlagStep ==
    /\ (hpc = "cycle" /\ chip8.draw_flag) => chip8'.draw_flag
    /\ chip8'.gfx # chip8.gfx => chip8'.draw_flag
    /\ (chip8.draw_flag /\ ~chip8'.draw_flag) => hpc = "render"

\* C17: the engine never clears the display-changed flag and sets it in
\* every step that changes a pixel; only the host loop clears it, when it
\* presents the frame; so no change of the pixel surface is left without
\* the flag that has it rendered by the end of the loop iteration.
C17_DrawFlagProtocol == [][C17_FlagStep]_vars

\* the opcode the next emulate_cycle will fetch
NextOpcode == MemAt(chip8, chip8.pc) * 256 + MemAt(chip8, chip8.pc + 1)

\* what C18 says of one emulate_cycle (the step main takes at "cycle")
C18_CycleStep ==
    hpc = "cycle" =>
        /\ chip8'.key = chip8.key
        /\ (/\ Completed /\ IsWaitKey /\ KeysDown # {}
            /\ chip8.key = prev.c.key
            /\ chip8.pc + 1 < MEMORY_SIZE
            /\ NextOpcode \div 4096 = 15 /\ NextOpcode % 256 = \h0A) =>
               /\ hpc' = "events"
               /\ chip8'.pc = chip8.pc + 2
               /\ chip8'.v[(NextOpcode \div 256) % 16] =
                      CHOOSE k \in KeysDown : \A j \in KeysDown : j <= k

\* C18: no emulate_cycle changes any of the 16 key entries, whatever it
\* executes and however it ends; FX0A does not take the press: an FX0A that
\* follows an FX0A which passed, the key matrix being the same, passes too.
C18_EngineNeverWritesKeys == [][C18_CycleStep]_vars

\* C18 witness: the two FX0A of a key ROM have passed in consecutive cycles
\* (3 and 4) on the same key matrix, keys 2 and F both still down
C18_Witness ==
    /\ Completed /\ IsWaitKey /\ cycles = 4 /\ prev.c.pc = \h206
    /\ KeysDown = {2, 15}
    /\ chip8.key = prev.c.key
    /\ chip8.pc = \h208
    /\ chip8.v[FetchedX] = 15

IsSkipKey == FetchedFamily = 14 /\ FetchedNN \in {\h9E, \hA1}

\* C20: EX9E and EXA1 with Vx above 0xF end in the fatal index panic,
\* nothing but the opcode field changed; with Vx in 0..F they complete and
\* skip exactly according to key[Vx] (EX9E if it is pressed, EXA1 if not).
C20_KeyIndexRange ==
    (Stepped /\ IsSkipKey) =>
        LET vx == prev.c.v[FetchedX]
        IN  IF vx > 15
            THEN /\ hpc = "panicked" /\ fatal = IndexPanic
                 /\ chip8 = [prev.c EXCEPT !.opcode = Fetched]
            ELSE /\ Completed
                 /\ chip8.pc = prev.c.pc +
                        (IF (FetchedNN = \h9E) = (prev.c.key[vx] # 0) THEN 4 ELSE 2)

\* C20 witness: EX9E with Vx = 0x12 and key 2 pressed has panicked, where
\* an index masked to four bits would have skipped
C20_Witness ==
    /\ Stepped /\ IsSkipKey /\ FetchedNN = \h9E
    /\ prev.c.v[FetchedX] = 18 /\ prev.c.key[2] = 1
    /\ hpc = "panicked" /\ fatal = IndexPanic
    /\ chip8.pc = prev.c.pc

\* the Chip8 as the claim describes it after construction
C19_Fresh ==
    hpc = "load" =>
        /\ \A a \in 0..(FONT_SIZE - 1) : MemAt(chip8, a) = FONTSET[a + 1]
        /\ \A a \in FONT_SIZE..(MEMORY_SIZE - 1) : MemAt(chip8, a) = 0
        /\ \A r \in 0..15 : chip8.v[r] = 0
        /\ chip8.i = 0 /\ chip8.sp = 0 /\ chip8.pc = \h200
        /\ chip8.delay_timer = 0 /\ chip8.sound_timer = 0
        /\ chip8.gfx = {}
        /\ \A k \in 0..15 : chip8.key[k] = 0
        /\ chip8.draw_flag = FALSE

\* load applied to the Chip8 of this state, whatever it has run: a
\* successful load changes memory alone, and there only cells from 0x200
\* up, and a second load of the same file changes nothing more
C19_Loads ==
    LET once == load(chip8, rom_path)
    IN  once.out = "ok" =>
            /\ [once.c EXCEPT !.memory = chip8.memory] = chip8
            /\ { a \in DOMAIN once.c.memory \cup DOMAIN chip8.memory :
                    MemAt(once.c, a) # MemAt(chip8, a) } \subseteq ROM_START..(MEMORY_SIZE - 1)
            /\ load(once.c, rom_path) = once

\* an F1 pressed after a cycle has run
IsReset == hpc = "events" /\ prev.valid /\ ~prev'.valid

C19_Step ==
    /\ C19_Fresh
    /\ C19_Loads /\ C19_Loads'
    /\ hpc = "load" => chip8' = load(new, rom_path).c
    /\ IsReset => chip8' = load(new, rom_path).c

\* C19: a constructed Chip8 has the font in memory[0..79], pc = 0x200 and
\* everything else zero; a successful load changes only memory from 0x200
\* up, and loading the same file again changes nothing; a reset (F1) leaves
\* exactly the Chip8 that construction followed by one load gives.
C19_FreshLoadReset == [][C19_Step]_vars

\* C19 witness: F1 was pressed after BusyRom had run: the registers, the
\* timers, the stack, the pixels and the font bytes it had changed are
\* those of a new Chip8, the ROM is in memory from 0x200
C19_Witness ==
    /\ hpc = "events" /\ ~prev.valid
    /\ rom_path.bytes = BusyRom
    /\ chip8 = [new EXCEPT !.memory = CopyRom(EmptyMem, BusyRom)]
    /\ MemAt(chip8, 2) = FONTSET[3]
    /\ MemAt(chip8, ROM_START) = \h60

IsSetDelay == FetchedFamily = 15 /\ FetchedNN = \h15
IsSetSound == FetchedFamily = 15 /\ FetchedNN = \h18
IsGetDelay == FetchedFamily = 15 /\ FetchedNN = \h07

\* C21: a step executing FX15 (FX18) with Vx = n >= 1 leaves the delay
\* (sound) timer at n - 1; an FX07 executed k >= 1 steps after an FX15 that
\* stored n, no FX15 and no blocked FX0A in between, loads max(n - k, 0).
C21_TimerTickedWhenSet ==
    /\ (Completed /\ IsSetDelay /\ prev.c.v[FetchedX] >= 1) =>
           chip8.delay_timer = prev.c.v[FetchedX] - 1
    /\ (Completed /\ IsSetSound /\ prev.c.v[FetchedX] >= 1) =>
           chip8.sound_timer = prev.c.v[FetchedX] - 1
    /\ (Completed /\ IsGetDelay /\ timed.valid /\ timed.steps >= 1) =>
           chip8.v[FetchedX] = IF timed.n > timed.steps THEN timed.n - timed.steps ELSE 0

\* C21 witness: FX15 stored 3 and the FX07 two steps after it has loaded 1
C21_Witness ==
    /\ Completed /\ IsGetDelay
    /\ timed.valid /\ timed.n = 3 /\ timed.steps = 2
    /\ prev.c.delay_timer = 1
    /\ chip8.v[FetchedX] = 1
    /\ chip8.delay_timer = 0

====
